---- MODULE Spec2Model ----
(***************************************************************************)
(* Model of the incremental fetch and mirroring logic of two integrations: *)
(*   Packs/Jira/Integrations/JiraV2/JiraV2.py                              *)
(*   Packs/McAfeeMVisionCASB/Integrations/McAfeeMVisionCASB/               *)
(*                                                McAfeeMVisionCASB.py     *)
(* An integration instance is one of the two adapters.  The persisted      *)
(* state is the "last run" object of the platform; every command is one    *)
(* action, and the variable `last` records the inputs and the result of    *)
(* the most recent command.                                                *)
(***************************************************************************)
EXTENDS Integers, Sequences, FiniteSets, TLC

VARIABLES adapter,    \* "jira" or "casb": which integration this instance is
          params,     \* the instance configuration (demisto.params())
          lastRun,    \* the persisted cursor (demisto.getLastRun/setLastRun)
          delivered,  \* history: id -> number of polls that delivered it (0, 1, 2 = more than once)
          remote,     \* the issues that exist on the Jira server, in creation order
          last,       \* the most recent command: its inputs and its result
          running     \* fetch-incidents invocations in flight, when they may overlap

vars == <<adapter, params, lastRun, delivered, remote, last, running>>

----------------------------------------------------------------------------
(* Bounds of the model *)

\* remote record ids are 1..MaxId
MaxId == 3
\* a response holds at most MaxResults records.  It stands for the page size
\* the code asks for (max_results = 50 in JiraV2.py, max_fetch in the CASB
\* adapter), scaled down.
MaxResults == 2
\* the Jira server holds at most MaxIssues issues, numbered 1..MaxIssues
MaxIssues == 4
\* timestamps are 0..MaxTime
MaxTime == 1

Max(a, b) == IF a >= b THEN a ELSE b

Ids == 1..MaxId
AllIds == 1..Max(MaxId, MaxIssues)
Times == 0..MaxTime

\* '' / {} / None: the empty value of a timestamp field
NoTime == -1

\* the string a timestamp parser cannot parse (dateparser.parse gives None)
Unparsable == -2

RECURSIVE SeqsUpTo(_, _)
SeqsUpTo(S, n) ==
    IF n = 0 THEN {<<>>}
    ELSE LET shorter == SeqsUpTo(S, n - 1)
         IN  shorter \cup {Append(s, x) : s \in {q \in shorter : Len(q) = n - 1}, x \in S}

Range(s) == {s[i] : i \in 1..Len(s)}

\* no command is running: every invocation is a run of its own, and the
\* platform starts the next one when the previous one has returned
NoCommand == [cmd |-> "none"]
Idle == last = NoCommand

\* the command's run ends
Finish ==
    /\ ~Idle
    /\ last' = NoCommand
    /\ UNCHANGED <<running, adapter, params, lastRun, delivered, remote>>

Bump(d, S) == [i \in DOMAIN d |-> IF i \in S THEN (IF d[i] >= 2 THEN 2 ELSE d[i] + 1) ELSE d[i]]

----------------------------------------------------------------------------
(* Jira: fetch-incidents *)

\* demisto.getLastRun() before the first setLastRun: {}
JiraNoRun == [empty |-> TRUE, idOffset |-> 0, lastCreatedTime |-> NoTime]

\* a Jira issue as the search returns it: its id and fields.created
JiraTickets == [id : Ids, created : Times]

\* the query sent to Jira: the id floor and the creation-time floor added to
\* the configured JQL (NoTime: no such clause)
JiraQuery(id_offset, last_created_time, fetch_by_created) ==
    IF fetch_by_created /\ last_created_time # NoTime
    THEN [minId |-> 0, createdFrom |-> last_created_time - 2, recent |-> FALSE]
    ELSE [minId |-> id_offset, createdFrom |-> NoTime, recent |-> fetch_by_created]

\* a plausible slip: the filter lets the last recorded id through
JiraSkipBelow(ticket_id, curr_id) == ticket_id < curr_id

\* the de-dup filter of the loop: `if ticket_id <= curr_id: continue`
JiraSkip(ticket_id, curr_id) == ticket_id <= curr_id

\* a plausible slip: the offset follows the last ticket, not the largest
JiraAdvancesAlways(ticket_id, id_offset) == TRUE

\* the high-water mark test: `if ticket_id > int(id_offset)`
JiraAdvances(ticket_id, id_offset) == ticket_id > id_offset

\* the loop over res['issues']
RECURSIVE JiraLoop(_, _, _, _, _)
JiraLoop(issues, curr_id, id_offset, last_created_time, incidents) ==
    IF issues = <<>>
    THEN [idOffset |-> id_offset, lastCreatedTime |-> last_created_time, incidents |-> incidents]
    ELSE LET ticket == Head(issues)
         IN  IF JiraSkip(ticket.id, curr_id)
             THEN JiraLoop(Tail(issues), curr_id, id_offset, last_created_time, incidents)
             ELSE IF JiraAdvances(ticket.id, id_offset)
                  THEN JiraLoop(Tail(issues), curr_id, ticket.id, ticket.created,
                                Append(incidents, ticket.id))
                  ELSE JiraLoop(Tail(issues), curr_id, id_offset, last_created_time,
                                Append(incidents, ticket.id))

\* the start of a poll that looks at the idOffset parameter alone
JiraStartFromParam(last_run, id_offset_param) ==
    [idOffset |-> id_offset_param, lastCreatedTime |-> NoTime]

\* the cursor a poll starts from: last_run if there is one, else the
\* configured idOffset; a falsy offset is 0
JiraStart(last_run, id_offset_param) ==
    IF last_run.empty
    THEN [idOffset |-> id_offset_param, lastCreatedTime |-> NoTime]
    ELSE [idOffset |-> last_run.idOffset, lastCreatedTime |-> last_run.lastCreatedTime]

\* the events of one poll, in the order in which the code produces them:
\* "read" (getLastRun), "request", "record" (an incident is appended), "write"
\* (setLastRun), "incidents" (the list is handed to the platform)
RECURSIVE Records(_, _)
Records(n, each) == IF n = 0 THEN <<>> ELSE Records(n - 1, each) \o each

\* setLastRun is called once, after the loop; a call inside the loop would
\* write after every record
WriteAfterEachRecord(n, each) == Records(n, each \o <<"write">>)
WriteAfterLoop(n, each) == Records(n, each) \o <<"write">>

\* the same requests with no try around them: a failure leaves the function
get_entries_unguarded(get) ==
    [entries |-> IF get = "ok" THEN "entries" ELSE "none", ended |-> get]

\* get_entries_for_fetched_incident: the entries of the issue, or the empty
\* entries when get_issue failed; `return entries` in the finally clause
\* discards the failure, SystemExit included
get_entries_for_fetched_incident(get) ==
    [entries |-> IF get = "ok" THEN "entries" ELSE "empty", ended |-> "ok"]

\* fetch_incidents.  res is what the server does in this poll: the answer to
\* the search, and the outcome of the get_issue requests made for the entries
\* of the new incidents.
fetch_incidents(last_run, id_offset_param, fetch_by_created, res) ==
    LET start == JiraStart(last_run, id_offset_param)
        query == JiraQuery(start.idOffset, start.lastCreatedTime, fetch_by_created)
        loop  == JiraLoop(res.issues, start.idOffset, start.idOffset,
                          start.lastCreatedTime, <<>>)
        ent   == IF res.raised \/ loop.incidents = <<>>
                 THEN [entries |-> "none", ended |-> "ok"]
                 ELSE get_entries_for_fetched_incident(res.entries)
    IN  IF res.raised \/ ent.ended # "ok"
        THEN [cmd |-> "jira-fetch", failed |-> TRUE, read |-> start.idOffset,
              read_created |-> start.lastCreatedTime,
              query |-> query, issues |-> res.issues, incidents |-> <<>>,
              entries_get |-> res.entries, entries |-> "none",
              events |-> <<"read", "request">>,
              written |-> last_run]
        ELSE [cmd |-> "jira-fetch", failed |-> FALSE, read |-> start.idOffset,
              read_created |-> start.lastCreatedTime,
              query |-> query, issues |-> res.issues, incidents |-> loop.incidents,
              entries_get |-> res.entries, entries |-> ent.entries,
              events |-> (<<"read", "request">>
                          \o WriteAfterLoop(Len(loop.incidents), <<"request", "record">>))
                         \o <<"incidents">>,
              written |-> [empty |-> FALSE, idOffset |-> loop.idOffset,
                           lastCreatedTime |-> loop.lastCreatedTime]]

\* what run_query can hand to fetch_incidents: an exception, {} (no issues)
\* or a page of issues
JiraResponses ==
    {[raised |-> TRUE, issues |-> <<>>, entries |-> "ok"]}
    \cup {r \in [raised : {FALSE}, issues : SeqsUpTo(JiraTickets, MaxResults),
                  entries : {"ok", "raise", "exit"}] :
              r.issues = <<>> => r.entries = "ok"}

JiraDeliver(r) ==
    /\ last' = r
    /\ lastRun' = r.written
    /\ delivered' = Bump(delivered, Range(r.incidents))

\* command fetch-incidents of the Jira instance, for any response of the server
JiraFetchIncidents ==
    /\ adapter = "jira"
    /\ Idle
    /\ \E res \in JiraResponses :
          JiraDeliver(fetch_incidents(lastRun, params.idOffset, params.fetchByCreated, res))
    /\ UNCHANGED <<running, adapter, params, remote>>

----------------------------------------------------------------------------
(* CASB: fetch-incidents *)

\* demisto.getLastRun() before the first setLastRun: {}
CasbNoRun == [empty |-> TRUE, start_time |-> NoTime, ids |-> {}]

\* arg_to_datetime(first_fetch): the start of the first-fetch window, the
\* earliest time of the model
FirstFetchTime == 0

\* start_time = last_run.get('start_time') or <first fetch>
CasbStartTime(last_run) ==
    IF last_run.start_time # NoTime THEN last_run.start_time ELSE FirstFetchTime

\* a plausible slip: every incident of the response counts as new
CasbIsNewAlways(incident_id, ids) == TRUE

\* the de-dup test of the loop: `incident_id not in ids`
CasbIsNew(incident_id, ids) == incident_id \notin ids

\* the loop over the incidents of the response
RECURSIVE CasbLoop(_, _, _)
CasbLoop(incidents, ids, xsoar_incidents) ==
    IF incidents = <<>>
    THEN [ids |-> ids, incidents |-> xsoar_incidents]
    ELSE LET incident_id == Head(incidents)
         IN  IF CasbIsNew(incident_id, ids)
             THEN CasbLoop(Tail(incidents), ids \cup {incident_id},
                           Append(xsoar_incidents, incident_id))
             ELSE CasbLoop(Tail(incidents), ids, xsoar_incidents)

\* a plausible slip: the seen ids are not stored
CasbNewLastRunForgets(nextStartTime, ids) ==
    [empty |-> FALSE, start_time |-> nextStartTime, ids |-> {}]

\* the last_run object built after a non-empty response
CasbNewLastRun(nextStartTime, ids) ==
    [empty |-> FALSE, start_time |-> nextStartTime, ids |-> ids]

\* `if incidents := result.get('body', {}).get('incidents', {})`; and a test
\* that takes every response
CasbHasIncidentsAlways(incidents) == TRUE
CasbHasIncidents(incidents) == incidents # <<>>

\* fetch_incidents, and main's setLastRun / demisto.incidents after it.
\* result is the outcome of client.incident_query: [raised, incidents,
\* nextStartTime], nextStartTime = NoTime when the response has none.
casb_fetch_incidents(last_run, result) ==
    LET start_time == CasbStartTime(last_run)
        loop == CasbLoop(result.incidents, last_run.ids, <<>>)
    IN  IF result.raised
        THEN [cmd |-> "casb-fetch", failed |-> TRUE, read |-> last_run,
              start_time |-> start_time, result |-> result, incidents |-> <<>>,
              events |-> <<"read", "request">>,
              written |-> last_run]
        ELSE [cmd |-> "casb-fetch", failed |-> FALSE, read |-> last_run,
              start_time |-> start_time, result |-> result,
              incidents |-> loop.incidents,
              events |-> (<<"read", "request">>
                          \o WriteAfterLoop(Len(loop.incidents), <<"record">>))
                         \o <<"incidents">>,
              written |-> IF CasbHasIncidents(result.incidents)
                          THEN CasbNewLastRun(result.nextStartTime, loop.ids)
                          ELSE last_run]

\* what the server can answer to a query from start_time: an error, or up to
\* `limit` incidents, with no nextStartTime or one that is not before the
\* start time asked for
CasbResponses(start_time, limit) ==
    {[raised |-> TRUE, incidents |-> <<>>, nextStartTime |-> NoTime]}
    \cup {[raised |-> FALSE, incidents |-> s, nextStartTime |-> t] :
            s \in SeqsUpTo(Ids, limit),
            t \in {NoTime} \cup {u \in Times : u >= start_time}}

\* command fetch-incidents of the CASB instance, for any response of the server
CasbFetchIncidents ==
    /\ adapter = "casb"
    /\ Idle
    /\ \E result \in CasbResponses(CasbStartTime(lastRun), params.max_fetch) :
          LET r == casb_fetch_incidents(lastRun, result)
          IN  /\ last' = r
              /\ lastRun' = r.written
              /\ delivered' = Bump(delivered, Range(r.incidents))
    /\ UNCHANGED <<running, adapter, params, remote>>

----------------------------------------------------------------------------
(* The Jira server, for polls against a growing set of issues *)

\* the configured JQL matches every issue; the clauses the poll adds are
\* id >= minId, created >= createdFrom and created > -1m (now is the minute
\* of the newest issue)
RemoteMatches(issue, query, now) ==
    /\ issue.id >= query.minId
    /\ query.createdFrom # NoTime => issue.created >= query.createdFrom
    /\ query.recent => issue.created > now - 1

RECURSIVE SelectSeq2(_, _, _)
SelectSeq2(s, query, now) ==
    IF s = <<>> THEN <<>>
    ELSE IF RemoteMatches(Head(s), query, now)
         THEN <<Head(s)>> \o SelectSeq2(Tail(s), query, now)
         ELSE SelectSeq2(Tail(s), query, now)

RemoteNow(issues) == IF issues = <<>> THEN 0 ELSE issues[Len(issues)].created

\* the search: the matching issues in ascending creation order, cut at the
\* page size (startAt is '', maxResults is max_results)
RemoteSearch(issues, query, max_results) ==
    LET hits == SelectSeq2(issues, query, RemoteNow(issues))
    IN  [raised |-> FALSE, entries |-> "ok",
         issues |-> IF Len(hits) > max_results THEN SubSeq(hits, 1, max_results) ELSE hits]

\* a new issue is created on the server: it gets the next id.  The issues of
\* a run are created in a burst, all within the same minute.
RemoteCreateIssue ==
    /\ adapter = "jira"
    /\ Len(remote) < MaxIssues
    /\ remote' = Append(remote, [id |-> Len(remote) + 1, created |-> RemoteNow(remote)])
    /\ UNCHANGED <<running, adapter, params, lastRun, delivered, last>>

\* the query the next poll sends
JiraNextQuery ==
    LET start == JiraStart(lastRun, params.idOffset)
    IN  JiraQuery(start.idOffset, start.lastCreatedTime, params.fetchByCreated)

\* command fetch-incidents of the Jira instance against the server's issues
JiraPollRemote ==
    /\ adapter = "jira"
    /\ Idle
    /\ JiraDeliver(fetch_incidents(lastRun, params.idOffset, params.fetchByCreated,
                                   RemoteSearch(remote, JiraNextQuery, MaxResults)))
    /\ UNCHANGED <<running, adapter, params, remote>>

----------------------------------------------------------------------------
(* Jira: get-remote-data *)

\* timestamps of the mirroring commands are 0..MaxStamp
MaxStamp == 1
Stamps == 0..MaxStamp

\* a command carries at most MaxEntries comments, attachments or new entries
MaxEntries == 2
\* users in the answer of a user search
MaxUsers == 2
\* page numbers, page sizes and limits given to the CASB commands are at most
\* MaxPage
MaxPage == 2
\* the CASB server holds at most MaxDicts policy dictionaries
MaxDicts == 3

\* dateparser.parse: None for a string that is no date
parse(date_string) == IF date_string \in Stamps THEN date_string ELSE Unparsable

\* comparing datetimes raises TypeError when one of them is None
CompareRaises(a, b) == a = Unparsable \/ b = Unparsable

\* a plausible slip: an equal timestamp counts as newer
RemoteIsNewerOrEqual(jira_modified_date, incident_modified_date) ==
    jira_modified_date >= incident_modified_date

\* `if jira_modified_date > incident_modified_date:`
RemoteIsNewer(jira_modified_date, incident_modified_date) ==
    jira_modified_date > incident_modified_date

\* a plausible slip: the terminal status is looked up under another name
handle_incoming_closing_incident_closed(incident_data) ==
    IF incident_data.status = "Closed"
    THEN <<[kind |-> "close", dbotIncidentClose |-> TRUE]>>
    ELSE <<>>

\* handle_incoming_closing_incident: the closing entry, or {} (here <<>>)
handle_incoming_closing_incident(incident_data) ==
    IF incident_data.status = "Done"
    THEN <<[kind |-> "close", dbotIncidentClose |-> TRUE]>>
    ELSE <<>>

\* `if incident_modified_date < comment_modified_date`; and the test that
\* lets an entry of the same instant through
EntryIsNewOrSame(incident_modified_date, entry_date) == incident_modified_date <= entry_date
EntryIsNew(incident_modified_date, entry_date) == incident_modified_date < entry_date

\* the comparison in get_comments / get_attachments raises TypeError when the
\* updated / created field of an entry does not parse
EntriesRaise(issue) ==
    \/ \E k \in 1..Len(issue.comments) : parse(issue.comments[k]) = Unparsable
    \/ \E k \in 1..Len(issue.attachments) : parse(issue.attachments[k]) = Unparsable

\* get_comments with only_new=True
RECURSIVE get_comments(_, _)
get_comments(comments, incident_modified_date) ==
    IF comments = <<>> THEN <<>>
    ELSE (IF EntryIsNew(incident_modified_date, parse(Head(comments)))
          THEN <<[kind |-> "comment", stamp |-> Head(comments)]>> ELSE <<>>)
         \o get_comments(Tail(comments), incident_modified_date)

\* get_attachments with only_new=True
RECURSIVE get_attachments(_, _)
get_attachments(attachments, incident_modified_date) ==
    IF attachments = <<>> THEN <<>>
    ELSE (IF EntryIsNew(incident_modified_date, parse(Head(attachments)))
          THEN <<[kind |-> "attachment", stamp |-> Head(attachments)]>> ELSE <<>>)
         \o get_attachments(Tail(attachments), incident_modified_date)

\* get_incident_entries, and the loops that append the comments and then the
\* attachments to parsed_entries
ParsedEntries(issue, incident_modified_date) ==
    get_comments(issue.comments, incident_modified_date)
    \o get_attachments(issue.attachments, incident_modified_date)

\* a plausible slip: no early return, the entries follow the closing entry
ClosingEntriesAndMore(closed_issue, issue, incident_modified_date) ==
    closed_issue \o ParsedEntries(issue, incident_modified_date)

\* `return GetRemoteDataResponse(incident_update, [closed_issue])`: the
\* entries of the response for a closed issue
ClosingEntries(closed_issue, issue, incident_modified_date) == closed_issue

\* how a failure leaves get_remote_data_command: the SystemExit of return_error
\* is not an Exception and ends the command; an exception reaches the except
\* branch, where "Rate limit exceeded" ends the command with an error;
\* otherwise the mirrored object is incident_update (or the bare id when it is
\* empty) with in_mirror_error set, and no entries
RemoteDataError(failure, has_update) ==
    IF failure \in {"rate-limit", "exit"}
    THEN [outcome |-> "error", content |-> "none", in_mirror_error |-> "none", entries |-> <<>>]
    ELSE [outcome |-> "response", content |-> IF has_update THEN "issue" ELSE "id",
          in_mirror_error |-> "error", entries |-> <<>>]

\* get_remote_data_command.  get is the outcome of get_issue ("ok", "raise",
\* "rate-limit", "exit"), issue the issue it returned, ent the outcome of the
\* GET of the comments in get_incident_entries.  content says what the mirrored object carries:
\* "none" ({} plus in_mirror_error), "issue" (the raw issue) or "id".
get_remote_data_command(last_update, get, issue, ent) ==
    LET jira_modified_date == parse(issue.updated)
        incident_modified_date == parse(last_update)
        closed_issue == handle_incoming_closing_incident(issue)
    IN  IF get # "ok"
        THEN RemoteDataError(get, FALSE)
        ELSE IF CompareRaises(jira_modified_date, incident_modified_date)
        THEN RemoteDataError("raise", FALSE)
        ELSE IF RemoteIsNewer(jira_modified_date, incident_modified_date)
        THEN IF closed_issue # <<>>
             THEN [outcome |-> "response", content |-> "issue", in_mirror_error |-> "",
                   entries |-> ClosingEntries(closed_issue, issue, incident_modified_date)]
             ELSE IF ent # "ok"
             THEN RemoteDataError(ent, TRUE)
             ELSE IF EntriesRaise(issue)
             THEN RemoteDataError("raise", TRUE)
             ELSE [outcome |-> "response", content |-> "issue", in_mirror_error |-> "",
                   entries |-> ParsedEntries(issue, incident_modified_date)]
        ELSE [outcome |-> "response", content |-> "none", in_mirror_error |-> "",
              entries |-> <<>>]

RequestOutcomes == {"ok", "raise", "rate-limit", "exit"}

\* a remote issue as get_issue returns it
MirrorIssues ==
    [updated : Stamps \cup {Unparsable}, status : {"Open", "Done"},
     comments : SeqsUpTo(Stamps \cup {Unparsable}, MaxEntries),
     attachments : SeqsUpTo(Stamps \cup {Unparsable}, MaxEntries)]

\* command get-remote-data
GetRemoteData ==
    /\ adapter = "jira"
    /\ Idle
    /\ \E last_update \in Stamps \cup {Unparsable}, get \in RequestOutcomes,
          issue \in MirrorIssues, ent \in RequestOutcomes :
          /\ get # "ok" => (issue = [updated |-> 0, status |-> "Open", comments |-> <<>>,
                                     attachments |-> <<>>] /\ ent = "ok")
          /\ last' = [cmd |-> "get-remote-data", last_update |-> last_update, get |-> get,
                      issue |-> issue, ent |-> ent,
                      res |-> get_remote_data_command(last_update, get, issue, ent)]
    /\ UNCHANGED <<running, adapter, params, lastRun, delivered, remote>>

----------------------------------------------------------------------------
(* Jira: requests, jira-edit-issue *)

\* how a request can end: it succeeds, an exception is raised (the connection
\* fails, a local file is missing), or the client reports the failure with
\* return_error, which leaves by sys.exit
PushOutcomes == {"ok", "raise", "exit"}

\* an exception raised inside the try block leaves the block: what follows the
\* failing statement is not run
LeavesTry(outcome) == outcome # "ok"

\* one HTTP request: what it is, the entry it pushes (0 if none), the transition
\* id it carries (0 if none) and how it ends
Request(req, entry, id, outcome) ==
    [req |-> req, entry |-> entry, id |-> id, outcome |-> outcome]

\* an argument that is not given (None or '')
NoArg == ""

\* str.lower() on the names used here
Lower(name) ==
    CASE name = "Done" -> "done"
      [] name = "Open" -> "open"
      [] name = "Resolve" -> "resolve"
      [] name = "AB" -> "ab"
      [] name = "Ops" -> "ops"
      [] name = "Ann" -> "ann"
      [] name = "Bob" -> "bob"
      [] name = "A@x" -> "a@x"
      [] OTHER -> name

\* edit_status matches with .lower() on both sides; a comparison that does not
\* fold the case is the other way to write it
SameNameExact(a, b) == a = b
SameNameFolded(a, b) == Lower(a) = Lower(b)

\* the first transition of the list the predicate accepts, 0 if none
RECURSIVE FirstMatch(_, _, _, _)
FirstMatch(transitions, k, name, folded) ==
    IF k > Len(transitions) THEN 0
    ELSE IF (IF folded THEN SameNameFolded(transitions[k].name, name)
             ELSE SameNameExact(transitions[k].name, name))
         THEN k
         ELSE FirstMatch(transitions, k + 1, name, folded)

\* the common shape of edit_status and edit_transition: GET the transitions,
\* POST the id of the first match, or return_error.  net gives the outcome of
\* each kind of request.
ChangeTransition(transitions, name, folded, listed, net) ==
    LET list == Request("list_transitions", 0, 0, net["list_transitions"])
        i == FirstMatch(transitions, 1, name, folded)
    IN  IF LeavesTry(list.outcome)
        THEN [requests |-> <<list>>, ended |-> list.outcome, error |-> "request"]
        ELSE IF i = 0
        THEN [requests |-> <<list>>, ended |-> "exit", error |-> listed]
        ELSE LET post == Request("transition", 0, transitions[i].id, net["transition"])
             IN  [requests |-> <<list, post>>, ended |-> post.outcome,
                  error |-> IF LeavesTry(post.outcome) THEN "request" ELSE "none"]

\* edit_status: the names are compared with .lower(); the error lists the names
edit_status(transitions, status, net) ==
    ChangeTransition(transitions, status, TRUE, "not-found-names", net)

\* edit_transition: the names are compared with ==; the error lists
\* transitions_data
edit_transition(transitions, transition_name, net) ==
    ChangeTransition(transitions, transition_name, FALSE, "not-found-data", net)

\* the issue_json / issueJson argument: not given, a JSON object, JSON that is
\* no object, a string that is no JSON, a value that is no string
IssueJsonKinds == {"absent", "object", "not-object", "malformed", "non-string"}

\* json.loads: JSONDecodeError (a ValueError) for a string that is no JSON,
\* TypeError for a value that is no string
json_loads(issue_json) ==
    IF issue_json = "malformed" THEN "ValueError"
    ELSE IF issue_json = "non-string" THEN "TypeError"
    ELSE "ok"

\* `except TypeError`; and a handler for both exceptions of json.loads
CaughtAsInvalidJsonBoth(exception) == exception \in {"TypeError", "ValueError"}
CaughtAsInvalidJson(exception) == exception = "TypeError"

\* get_issue_fields, up to `if not issue.get('fields')`: the argument is loaded;
\* a caught exception ends in return_error, another one is raised; issue.get
\* on JSON that is no object raises AttributeError
get_issue_fields(issue_json) ==
    LET loaded == json_loads(issue_json)
    IN  IF loaded # "ok"
        THEN IF CaughtAsInvalidJson(loaded)
             THEN [ended |-> "exit", error |-> "issueJson must be in a valid json format"]
             ELSE [ended |-> "raise", error |-> loaded]
        ELSE IF issue_json = "not-object"
        THEN [ended |-> "raise", error |-> "AttributeError"]
        ELSE [ended |-> "ok", error |-> "none"]

\* `if status and transition`; and a test that never rejects
BothGivenNever(status, transition) == FALSE
BothGiven(status, transition) == status # NoArg /\ transition # NoArg

\* edit_issue_command: build the fields, PUT them, change the status or the
\* transition if one is asked for, GET the issue
edit_issue_command(issue_json, status, transition, transitions, net) ==
    LET fields == get_issue_fields(issue_json)
        put == Request("edit_issue", 0, 0, net["edit_issue"])
        get == Request("get_issue", 0, 0, net["get_issue"])
        change == IF BothGiven(status, transition)
                  THEN [requests |-> <<>>, ended |-> "exit", error |-> "both"]
                  ELSE IF status # NoArg THEN edit_status(transitions, status, net)
                  ELSE IF transition # NoArg
                       THEN edit_transition(transitions, transition, net)
                  ELSE [requests |-> <<>>, ended |-> "ok", error |-> "none"]
    IN  IF LeavesTry(fields.ended)
        THEN [requests |-> <<>>, ended |-> fields.ended, error |-> fields.error]
        ELSE IF LeavesTry(put.outcome)
        THEN [requests |-> <<put>>, ended |-> put.outcome, error |-> "request"]
        ELSE IF LeavesTry(change.ended)
        THEN [requests |-> <<put>> \o change.requests, ended |-> change.ended,
              error |-> change.error]
        ELSE [requests |-> (<<put>> \o change.requests) \o <<get>>,
              ended |-> get.outcome,
              error |-> IF LeavesTry(get.outcome) THEN "request" ELSE "none"]

EditRequests == {"edit_issue", "list_transitions", "transition", "get_issue"}
TransitionNames == {"Open", "Done"}
TransitionIds == {11, 21}
RequestedNames == {"Done", "done", "Resolve"}

\* command jira-edit-issue
EditIssue ==
    /\ adapter = "jira"
    /\ Idle
    /\ \E issue_json \in IssueJsonKinds,
          status \in RequestedNames \cup {NoArg}, transition \in RequestedNames \cup {NoArg},
          transitions \in SeqsUpTo([name : TransitionNames, id : TransitionIds], 2),
          net \in [EditRequests -> {"ok", "exit"}] :
          /\ issue_json # "absent" =>
                 (transitions = <<>> /\ \A r \in EditRequests : net[r] = "ok")
          /\ last' = [cmd |-> "jira-edit-issue", issue_json |-> issue_json,
                      status |-> status, transition |-> transition,
                      transitions |-> transitions, net |-> net,
                      res |-> edit_issue_command(issue_json, status, transition,
                                                 transitions, net)]
    /\ UNCHANGED <<running, adapter, params, lastRun, delivered, remote>>

----------------------------------------------------------------------------
(* Jira: Client.send_request *)

StatusCodes == {200, 400, 401, 404, 500, 503}

\* result.ok of the HTTP response
ResponseOk(status_code) == status_code < 400

\* the shapes of an error body: a JSON object with errorMessages, with errors,
\* another JSON object, JSON that is no object (rj.get raises AttributeError),
\* and text that is no JSON (result.json() raises ValueError)
BodyShapes == {"errorMessages", "errors", "json", "json-list", "text"}

\* the branch taken after ValueError, by status code; files is the `files`
\* argument of the request
TextFailure(status_code, files) ==
    IF status_code = 401 THEN "unauthorized"
    ELSE IF status_code = 404 THEN "could-not-connect"
    ELSE IF status_code = 500 /\ files THEN "upload-500"
    ELSE "failed-reaching"

\* send_request on a response: it returns the response, or ends in return_error
\* with one of the messages, or in an exception
send_request(status_code, body, files) ==
    IF ResponseOk(status_code)
    THEN [ended |-> "ok", returned |-> TRUE, errors |-> <<>>]
    ELSE IF body \in {"errorMessages", "errors"}
    THEN [ended |-> "exit", returned |-> FALSE, errors |-> <<"status-message">>]
    ELSE IF body = "json"
    THEN [ended |-> "exit", returned |-> FALSE, errors |-> <<"status-error-text">>]
    ELSE IF body = "json-list"
    THEN [ended |-> "raise", returned |-> FALSE, errors |-> <<"AttributeError">>]
    ELSE [ended |-> "exit", returned |-> FALSE,
          errors |-> <<TextFailure(status_code, files)>>]

\* a request of any command meets a response of the server
SendRequest ==
    /\ adapter = "jira"
    /\ Idle
    /\ \E status_code \in StatusCodes, body \in BodyShapes, files \in BOOLEAN :
          last' = [cmd |-> "send_request", status_code |-> status_code, body |-> body,
                   files |-> files, res |-> send_request(status_code, body, files)]
    /\ UNCHANGED <<running, adapter, params, lastRun, delivered, remote>>

----------------------------------------------------------------------------
(* Jira: jira-create-issue *)

\* get_project_id: a project matches by key or by name, both compared with
\* .lower(); and the comparison that does not fold the case
ProjectMatchesExact(project, project_key, project_name) ==
    project_key = project.key \/ project_name = project.name
ProjectMatches(project, project_key, project_name) ==
    Lower(project_key) = Lower(project.key) \/ Lower(project_name) = Lower(project.name)

\* the first project of the createmeta answer that matches, 0 if none
RECURSIVE FirstProject(_, _, _, _)
FirstProject(projects, k, project_key, project_name) ==
    IF k > Len(projects) THEN 0
    ELSE IF ProjectMatches(projects[k], project_key, project_name) THEN k
    ELSE FirstProject(projects, k + 1, project_key, project_name)

\* get_project_id.  id = 0 when no id is returned.
get_project_id(project_key, project_name, projects, net) ==
    LET lookup == Request("createmeta", 0, 0, net["createmeta"])
        i == FirstProject(projects, 1, project_key, project_name)
    IN  IF project_key = NoArg /\ project_name = NoArg
        THEN [requests |-> <<>>, ended |-> "exit", error |-> "no-project-given", id |-> 0]
        ELSE IF LeavesTry(lookup.outcome)
        THEN [requests |-> <<lookup>>, ended |-> lookup.outcome, error |-> "request", id |-> 0]
        ELSE IF i = 0
        THEN [requests |-> <<lookup>>, ended |-> "exit", error |-> "project-not-found", id |-> 0]
        ELSE [requests |-> <<lookup>>, ended |-> "ok", error |-> "none", id |-> projects[i].id]

\* create_issue_command: get_issue_fields with issue_creating resolves the
\* project id, then the issue is POSTed with it
create_issue_command(issue_json, project_key, project_name, projects, net) ==
    LET fields == get_issue_fields(issue_json)
        found == get_project_id(project_key, project_name, projects, net)
        post == Request("create_issue", 0, found.id, net["create_issue"])
    IN  IF LeavesTry(fields.ended)
        THEN [requests |-> <<>>, ended |-> fields.ended, error |-> fields.error]
        ELSE IF LeavesTry(found.ended)
        THEN [requests |-> found.requests, ended |-> found.ended, error |-> found.error]
        ELSE [requests |-> Append(found.requests, post), ended |-> post.outcome,
              error |-> IF LeavesTry(post.outcome) THEN "request" ELSE "none"]

CreateRequests == {"createmeta", "create_issue"}
ProjectKeys == {"AB", "ab"}
ProjectNames == {"Ops", "ops"}
ProjectIds == {10, 20}
JiraProjects == [key : {"AB", "CD"}, name : {"Ops", "Dev"}, id : ProjectIds]

\* command jira-create-issue
CreateIssue ==
    /\ adapter = "jira"
    /\ Idle
    /\ \E issue_json \in IssueJsonKinds,
          project_key \in ProjectKeys \cup {NoArg}, project_name \in ProjectNames \cup {NoArg},
          projects \in SeqsUpTo(JiraProjects, 2),
          net \in [CreateRequests -> {"ok", "exit"}] :
          /\ issue_json # "absent" =>
                 (Len(projects) <= 1 /\ \A r \in CreateRequests : net[r] = "ok")
          /\ last' = [cmd |-> "jira-create-issue", issue_json |-> issue_json,
                      project_key |-> project_key,
                      project_name |-> project_name, projects |-> projects, net |-> net,
                      res |-> create_issue_command(issue_json, project_key, project_name,
                                                   projects, net)]
    /\ UNCHANGED <<running, adapter, params, lastRun, delivered, remote>>

----------------------------------------------------------------------------
(* Jira: jira-get-id-by-attribute *)

\* the identifier of a user: user.get('name') when is_jirav2api == 'true',
\* user.get('accountId') otherwise; and a reading that knows accountId only
UserIdAccount(user, is_jirav2api) == user.accountId
UserId(user, is_jirav2api) ==
    IF is_jirav2api = "true" THEN user.name ELSE user.accountId

\* attribute.lower() in [displayName.lower(), emailAddress.lower()]
AttributeMatches(attribute, user) ==
    Lower(attribute) \in {Lower(user.displayName), Lower(user.emailAddress)}

\* get_account_id_from_attribute.  users is the answer of search_user, net the
\* outcome of its request.
get_account_id_from_attribute(attribute, is_jirav2api, users, net) ==
    IF net # "ok"
    THEN [ended |-> net, kind |-> "none", account_id |-> NoArg]
    ELSE LET account_ids == {UserId(users[k], is_jirav2api) :
                                k \in {n \in 1..Len(users) : AttributeMatches(attribute, users[n])}}
         IN  IF account_ids = {}
             THEN IF users = <<>>
                  THEN [ended |-> "ok", kind |-> "no-account-id", account_id |-> NoArg]
                  ELSE IF Len(users) = 1
                  THEN [ended |-> "ok", kind |-> "result",
                        account_id |-> UserId(users[1], is_jirav2api)]
                  ELSE [ended |-> "ok", kind |-> "multiple-unresolved", account_id |-> NoArg]
             ELSE IF Cardinality(account_ids) > 1
             THEN [ended |-> "ok", kind |-> "multiple-found", account_id |-> NoArg]
             ELSE [ended |-> "ok", kind |-> "result",
                   account_id |-> CHOOSE id \in account_ids : TRUE]

\* the users search_user can return: Jira matches the query loosely, so a
\* returned user need not carry the attribute; the e-mail address may be blank
JiraUsers ==
    [displayName : {"Ann", "Bob"}, emailAddress : {"", "a@x"},
     name : {"u1", "u2"}, accountId : {"id1", "id2"}]
Attributes == {"ann", "A@x"}

\* command jira-get-id-by-attribute
GetIdByAttribute ==
    /\ adapter = "jira"
    /\ Idle
    /\ \E attribute \in Attributes, is_jirav2api \in {"true", "false"},
          users \in SeqsUpTo(JiraUsers, MaxUsers), net \in {"ok", "exit"} :
          /\ net # "ok" => users = <<>>
          /\ last' = [cmd |-> "jira-get-id-by-attribute", attribute |-> attribute,
                      is_jirav2api |-> is_jirav2api, users |-> users, net |-> net,
                      res |-> get_account_id_from_attribute(attribute, is_jirav2api,
                                                            users, net)]
    /\ UNCHANGED <<running, adapter, params, lastRun, delivered, remote>>

----------------------------------------------------------------------------
(* Jira: update-remote-system *)

\* `if entry.get('type') == 3`: upload_file, else add_comment; and a branch
\* that treats every entry as a comment
EntryRequestComment(type) == "add_comment"
EntryRequest(type) == IF type = 3 THEN "upload_file" ELSE "add_comment"

\* the loop `for entry in entries`: entry type 3 is uploaded as a file, any
\* other entry is added as a comment.  entries[k] = [type, outcome].
RECURSIVE PushEntries(_, _, _)
PushEntries(entries, k, requests) ==
    IF k > Len(entries)
    THEN [requests |-> requests, left |-> FALSE, ended |-> "ok"]
    ELSE LET entry == entries[k]
             request == Request(EntryRequest(entry.type), k, 0, entry.outcome)
         IN  IF LeavesTry(entry.outcome)
             THEN [requests |-> Append(requests, request), left |-> TRUE,
                   ended |-> entry.outcome]
             ELSE PushEntries(entries, k + 1, Append(requests, request))

\* `if remote_args.delta and remote_args.incident_changed`, and the test that
\* looks at incident_changed alone
EditsFieldsWhenChanged(delta, incident_changed) == incident_changed
EditsFields(delta, incident_changed) == delta /\ incident_changed

\* what the caller gets when the try block ended with `ended`: `return` in the
\* finally clause discards a pending exception, SystemExit included; a return
\* placed after the try statement would let SystemExit through
ReturnAfterTry(ended) == IF ended = "exit" THEN "SystemExit" ELSE "remote_id"
ReturnInFinally(ended) == "remote_id"

\* update_remote_system_command: delta and incident_changed of the arguments,
\* the outcomes of the requests of edit_issue_command if it runs, and the new
\* entries.  The result is the list of requests made and the value returned.
update_remote_system_command(delta, incident_changed, net, entries) ==
    LET edits == IF EditsFields(delta, incident_changed)
                 THEN edit_issue_command("absent", NoArg, NoArg, <<>>, net)
                 ELSE [requests |-> <<>>, ended |-> "ok", error |-> "none"]
        pushed == IF LeavesTry(edits.ended)
                  THEN [requests |-> edits.requests, left |-> TRUE, ended |-> edits.ended]
                  ELSE PushEntries(entries, 1, edits.requests)
    IN  [requests |-> pushed.requests, left |-> pushed.left, ended |-> pushed.ended,
         returned |-> ReturnInFinally(pushed.ended)]

----------------------------------------------------------------------------
(* Jira: get-modified-remote-data *)

\* get_modified_remote_data_command.  user_info is the outcome of the GET of
\* the user's time zone ("ok", "non-200", "raise"), parsed says whether
\* last_update parses (the assert), query is the outcome of run_query and ids
\* the issues it found.  `return` in the finally clause discards whatever is
\* pending: the command always answers, with the ids it has.
get_modified_remote_data_command(user_info, parsed, query, ids) ==
    IF user_info = "ok" /\ parsed /\ query = "ok"
    THEN [outcome |-> "response", modified_issues_ids |-> ids]
    ELSE [outcome |-> "response", modified_issues_ids |-> <<>>]

\* command get-modified-remote-data
GetModifiedRemoteData ==
    /\ adapter = "jira"
    /\ Idle
    /\ \E user_info \in {"ok", "non-200", "raise"}, parsed \in BOOLEAN,
          query \in {"ok", "raise"}, ids \in SeqsUpTo(Ids, MaxResults) :
          /\ user_info # "ok" => (parsed /\ query = "ok")
          /\ ~parsed => query = "ok"
          /\ ~(user_info = "ok" /\ parsed /\ query = "ok") => ids = <<>>
          /\ last' = [cmd |-> "get-modified-remote-data", user_info |-> user_info,
                      parsed |-> parsed, query |-> query, ids |-> ids,
                      res |-> get_modified_remote_data_command(user_info, parsed,
                                                               query, ids)]
    /\ UNCHANGED <<running, adapter, params, lastRun, delivered, remote>>

----------------------------------------------------------------------------
(* Jira: update-remote-system, the command *)

\* the new entries of the incident with the outcome the push of each would have
MirrorEntries == SeqsUpTo([type : {1, 3}, outcome : PushOutcomes], MaxEntries)

\* command update-remote-system
UpdateRemoteSystem ==
    /\ adapter = "jira"
    /\ Idle
    /\ \E delta \in BOOLEAN, incident_changed \in BOOLEAN,
          put \in PushOutcomes, get \in PushOutcomes, entries \in MirrorEntries :
          /\ ~(delta /\ incident_changed) => (put = "ok" /\ get = "ok")
          /\ put # "ok" => get = "ok"
          /\ LET net == [r \in EditRequests |->
                            IF r = "edit_issue" THEN put
                            ELSE IF r = "get_issue" THEN get ELSE "ok"]
             IN  last' = [cmd |-> "update-remote-system", delta |-> delta,
                          incident_changed |-> incident_changed, entries |-> entries,
                          res |-> update_remote_system_command(delta, incident_changed,
                                                               net, entries)]
    /\ UNCHANGED <<running, adapter, params, lastRun, delivered, remote>>

----------------------------------------------------------------------------

----------------------------------------------------------------------------
(* CASB: pagination, incident query, policy dictionary list *)

\* arg_to_number(None): the argument was not given
NoNumber == -100

\* the truth value Python gives a number or None
Truthy(n) == n # NoNumber /\ n # 0

\* the window when neither limit nor a page is usable: `return 0, 50`
DefaultWindowEnd == 50

\* `page -= 1`: pages are numbered from 1; and a reading that numbers them
\* from 0
PageIndexFromZero(page) == page
PageIndex(page) == page - 1

\* calculate_offset_and_limit(limit=, page=, page_size=)
calculate_offset_and_limit(limit, page, page_size) ==
    IF Truthy(limit)
    THEN <<0, limit>>
    ELSE IF Truthy(page) /\ Truthy(page_size)
    THEN <<PageIndex(page) * page_size, PageIndex(page) * page_size + page_size>>
    ELSE <<0, DefaultWindowEnd>>

\* one bound of a Python slice over a list of n items: a negative index counts
\* from the end, and the bound is clamped to 0..n
SliceBound(i, n) ==
    LET j == IF i < 0 THEN i + n ELSE i
    IN  IF j < 0 THEN 0 ELSE IF j > n THEN n ELSE j

\* list[a:b]
PySlice(list, a, b) ==
    LET lo == SliceBound(a, Len(list))
        hi == SliceBound(b, Len(list))
    IN  IF lo >= hi THEN <<>> ELSE SubSeq(list, lo + 1, hi)

\* `if names and policy.get('name') in names or not names`
NameWanted(names, name) == (names # {} /\ name \in names) \/ names = {}

\* the loop over the policies of the window
RECURSIVE FilterPolicies(_, _)
FilterPolicies(policies, names) ==
    IF policies = <<>> THEN <<>>
    ELSE (IF NameWanted(names, Head(policies).name)
          THEN <<[ID |-> Head(policies).id, Name |-> Head(policies).name]>>
          ELSE <<>>)
         \o FilterPolicies(Tail(policies), names)

\* the two orders of the slice and the name filter
FilterThenWindow(result, names, window) ==
    PySlice(FilterPolicies(result, names), window[1], window[2])
WindowThenFilter(result, names, window) ==
    FilterPolicies(PySlice(result, window[1], window[2]), names)

\* policy_dictionary_list_command.  result is the list the server returns,
\* net the outcome of the request.
policy_dictionary_list_command(limit, page, page_size, names, result, net) ==
    LET window == calculate_offset_and_limit(limit, page, page_size)
    IN  IF net # "ok"
        THEN [ended |-> "error", window |-> window, policies |-> <<>>, outputs |-> <<>>]
        ELSE [ended |-> "ok", window |-> window,
              policies |-> PySlice(result, window[1], window[2]),
              outputs |-> WindowThenFilter(result, names, window)]

\* the numbers a caller can give for limit, page, page_size and page_number
PageArgs == {NoNumber} \cup (-1..MaxPage)

DictNames == {"pii", "pci"}
NameFilters == {{}, {"pii"}, {"pci", "hr"}}

\* the dictionaries of the server: ids are the positions in its list
RemoteDicts ==
    {[k \in 1..Len(ns) |-> [id |-> k, name |-> ns[k]]] : ns \in SeqsUpTo(DictNames, MaxDicts)}

\* command mvision-casb-policy-dictionary-list
PolicyDictionaryList ==
    /\ adapter = "casb"
    /\ Idle
    /\ \E limit \in PageArgs, page \in PageArgs, page_size \in PageArgs,
          names \in NameFilters, result \in RemoteDicts, net \in {"ok", "raise"} :
          /\ net # "ok" => result = <<>>
          /\ last' = [cmd |-> "policy-dictionary-list", limit |-> limit, page |-> page,
                      page_size |-> page_size, names |-> names, result |-> result,
                      net |-> net,
                      res |-> policy_dictionary_list_command(limit, page, page_size, names,
                                                             result, net)]
    /\ UNCHANGED <<running, adapter, params, lastRun, delivered, remote>>

\* arg_to_number(args.get('limit', 50))
DefaultLimit == 50

\* the loop `for _ in range(page_number)`: query k of n, each with limit
\* page_size, the next one from the nextStartTime of the answer
RECURSIVE QueryPages(_, _, _, _, _, _, _)
QueryPages(k, n, page_size, start_time, responses, queries, result) ==
    IF k > n
    THEN [failed |-> FALSE, queries |-> queries, result |-> result]
    ELSE LET sent == Append(queries, [limit |-> page_size, start_time |-> start_time])
         IN  IF responses[k].raised
             THEN [failed |-> TRUE, queries |-> sent, result |-> result]
             ELSE QueryPages(k + 1, n, page_size, responses[k].nextStartTime, responses,
                             sent, responses[k])

\* `result = {}`: the answer before any query
NoResult == [raised |-> FALSE, incidents |-> <<>>, nextStartTime |-> NoTime]

\* incident_query_command.  responses are the answers of the server to the
\* queries, in order.
incident_query_command(limit, start_time, page_number, page_size, responses) ==
    LET asked == IF limit = NoNumber THEN DefaultLimit ELSE limit
        run == IF ~Truthy(page_number) \/ ~Truthy(page_size)
               THEN [failed |-> responses[1].raised,
                     queries |-> <<[limit |-> asked, start_time |-> start_time]>>,
                     result |-> responses[1]]
               ELSE QueryPages(1, page_number, page_size, start_time, responses, <<>>,
                               NoResult)
    IN  IF run.failed
        THEN [ended |-> "error", queries |-> run.queries, outputs |-> <<>>]
        ELSE [ended |-> IF run.result.incidents # <<>> THEN "incidents" ELSE "none-found",
              queries |-> run.queries, outputs |-> run.result.incidents]

\* the number of queries the command is about to send
QueriesToSend(page_number, page_size) ==
    IF ~Truthy(page_number) \/ ~Truthy(page_size) THEN 1
    ELSE IF page_number < 0 THEN 0 ELSE page_number

\* an answer of the server to queryIncidents: an error, or incidents and
\* possibly a nextStartTime
QueryResponses ==
    {[raised |-> TRUE, incidents |-> <<>>, nextStartTime |-> NoTime]}
    \cup [raised : {FALSE}, incidents : {<<>>, <<1>>, <<2>>},
          nextStartTime : {NoTime} \cup Times]

RECURSIVE SeqsOfLen(_, _)
SeqsOfLen(S, n) ==
    IF n = 0 THEN {<<>>} ELSE {Append(q, x) : q \in SeqsOfLen(S, n - 1), x \in S}

\* command mvision-casb-incident-query
IncidentQuery ==
    /\ adapter = "casb"
    /\ Idle
    /\ \E limit \in {NoNumber, 1}, start_time \in Times,
          page_number \in PageArgs, page_size \in {NoNumber, 0, 2} :
          \E responses \in SeqsOfLen(QueryResponses, QueriesToSend(page_number, page_size)) :
             last' = [cmd |-> "incident-query", limit |-> limit, start_time |-> start_time,
                      page_number |-> page_number, page_size |-> page_size,
                      responses |-> responses,
                      res |-> incident_query_command(limit, start_time, page_number,
                                                     page_size, responses)]
    /\ UNCHANGED <<running, adapter, params, lastRun, delivered, remote>>

----------------------------------------------------------------------------
(* fetch-incidents invocations that overlap *)

\* two invocations of fetch-incidents
Procs == {1, 2}
Other(p) == 3 - p

\* per invocation: where it is ("idle" before it starts, "read" after
\* getLastRun, "done" at its end) and the cursor it read; and two history flags: two
\* invocations were in flight together, a write stored a smaller idOffset or
\* seen-id set than the one it replaced
NoneRunning(last_run) ==
    [pc |-> [p \in Procs |-> "idle"], snap |-> [p \in Procs |-> last_run],
     overlapped |-> FALSE, regressed |-> FALSE]

\* demisto.getLastRun() at the start of fetch_incidents
GetLastRun(p) ==
    /\ running.pc[p] = "idle"
    /\ running' = [running EXCEPT !.pc[p] = "read", !.snap[p] = lastRun,
                                   !.overlapped = @ \/ running.pc[Other(p)] = "read"]
    /\ UNCHANGED <<adapter, params, lastRun, delivered, remote, last>>

\* the cursor the poll works from: the one it read at its start, whatever has
\* been stored since
CursorAsRead(snap, stored) == snap

\* the rest of the Jira fetch_incidents, from the cursor read before: the
\* search, the loop, setLastRun, demisto.incidents
JiraFetchFrom(p) ==
    /\ adapter = "jira"
    /\ running.pc[p] = "read"
    /\ \E res \in {x \in JiraResponses : x.entries = "ok"} :
          LET r == fetch_incidents(CursorAsRead(running.snap[p], lastRun), params.idOffset,
                                   params.fetchByCreated, res)
          IN  /\ lastRun' = IF r.failed THEN lastRun ELSE r.written
              /\ delivered' = Bump(delivered, Range(r.incidents))
              /\ running' = [running EXCEPT
                    !.pc[p] = "done",
                    !.regressed = @ \/ (~r.failed /\ r.written.idOffset < lastRun.idOffset)]
    /\ UNCHANGED <<adapter, params, remote, last>>

\* the rest of the CASB fetch_incidents and of its branch of main
CasbFetchFrom(p) ==
    /\ adapter = "casb"
    /\ running.pc[p] = "read"
    /\ LET snap == CursorAsRead(running.snap[p], lastRun)
       IN  \E result \in CasbResponses(CasbStartTime(snap), params.max_fetch) :
             LET r == casb_fetch_incidents(snap, result)
             IN  /\ lastRun' = IF r.failed THEN lastRun ELSE r.written
                 /\ delivered' = Bump(delivered, Range(r.incidents))
                 /\ running' = [running EXCEPT
                       !.pc[p] = "done",
                       !.regressed = @ \/ (~r.failed /\ ~(lastRun.ids \subseteq r.written.ids))]
    /\ UNCHANGED <<adapter, params, remote, last>>

----------------------------------------------------------------------------

Init ==
    /\ adapter \in {"jira", "casb"}
    /\ params \in IF adapter = "jira" THEN [idOffset : {0, 1}, fetchByCreated : BOOLEAN]
                 ELSE {[max_fetch |-> MaxResults]}
    /\ lastRun = IF adapter = "jira" THEN JiraNoRun ELSE CasbNoRun
    /\ delivered = [i \in AllIds |-> 0]
    /\ remote = <<>>
    /\ last = NoCommand
    /\ running = NoneRunning(lastRun)

Next ==
    \/ JiraFetchIncidents
    \/ CasbFetchIncidents
    \/ Finish

Spec == Init /\ [][Next]_vars

\* polling against the Jira server: the platform runs fetch-incidents on a
\* schedule, so a poll that can change the state is eventually run
InitRemote == Init /\ adapter = "jira"

NextRemote ==
    \/ RemoteCreateIssue
    \/ JiraPollRemote
    \/ Finish

\* the mirroring commands of the Jira instance
NextMirror ==
    \/ GetRemoteData
    \/ GetModifiedRemoteData
    \/ UpdateRemoteSystem
    \/ Finish

MirrorSpec == InitRemote /\ [][NextMirror]_vars

\* the commands that edit and create issues, and the requests they send
NextCommand ==
    \/ EditIssue
    \/ CreateIssue
    \/ GetIdByAttribute
    \/ SendRequest
    \/ Finish

CommandSpec == InitRemote /\ [][NextCommand]_vars

\* the query and list commands of the CASB instance
InitCasb == Init /\ adapter = "casb"

NextCasbCommand ==
    \/ PolicyDictionaryList
    \/ IncidentQuery
    \/ Finish

CasbCommandSpec == InitCasb /\ [][NextCasbCommand]_vars

\* fetch-incidents run by two runners with nothing that keeps them apart
NextConcurrent ==
    \/ \E p \in Procs : GetLastRun(p)
    \/ \E p \in Procs : JiraFetchFrom(p)
    \/ \E p \in Procs : CasbFetchFrom(p)

ConcurrentSpec == Init /\ [][NextConcurrent]_vars

RemoteSpec ==
    InitRemote /\ [][NextRemote]_vars /\ WF_vars(JiraPollRemote) /\ WF_vars(Finish)

----------------------------------------------------------------------------
(* Properties *)

JiraPolled == last.cmd = "jira-fetch" /\ ~last.failed
CasbPolled == last.cmd = "casb-fetch" /\ ~last.failed

IssueIds(issues) == [k \in 1..Len(issues) |-> issues[k].id]

NoRepeats(s) == \A j, k \in 1..Len(s) : s[j] = s[k] => j = k

RECURSIVE MaxOf(_)
MaxOf(S) == IF S = {} THEN 0 ELSE LET x == CHOOSE y \in S : TRUE IN Max(x, MaxOf(S \ {x}))

\* C1: Jira fetch-incidents, the cursor being persisted from poll to poll: no
\* issue id is delivered by more than one poll; every issue a poll delivers
\* has an id strictly greater than the idOffset the poll started from, and
\* the idOffset the poll writes is at least the largest id it delivered.
C1_JiraNoReemission ==
    adapter = "jira" =>
        /\ \A i \in AllIds : delivered[i] <= 1
        /\ JiraPolled =>
              /\ lastRun = last.written
              /\ \A k \in 1..Len(last.incidents) :
                    /\ last.incidents[k] > last.read
                    /\ last.written.idOffset >= last.incidents[k]

\* a poll is handed again an issue an earlier poll delivered, together with
\* a new one: it delivers the new one only
C1_Witness ==
    /\ JiraPolled
    /\ last.incidents # <<>>
    /\ \E k \in 1..Len(last.issues) :
          /\ last.issues[k].id \notin Range(last.incidents)
          /\ delivered[last.issues[k].id] = 1

\* C2: CASB fetch-incidents, the cursor being persisted from poll to poll: an
\* incident whose id is in the persisted seen-id set is not delivered again,
\* an id that occurs several times in a response is delivered once, and no id
\* is delivered by more than one poll.  A poll that starts with A and B seen
\* and is answered [B, C] delivers C only.
C2_CasbNoReemission ==
    adapter = "casb" =>
        /\ \A i \in AllIds : delivered[i] <= 1
        /\ CasbPolled =>
              /\ Range(last.incidents) = Range(last.result.incidents) \ last.read.ids
              /\ NoRepeats(last.incidents)
              /\ (last.read.ids = {1, 2} /\ last.result.incidents = <<2, 3>>)
                    => last.incidents = <<3>>

\* the scenario: A and B were delivered and are in the seen-id set, the next
\* poll is answered [B, C] and delivers C
C2_Witness ==
    /\ CasbPolled
    /\ last.read.ids = {1, 2}
    /\ delivered[1] = 1 /\ delivered[2] = 1
    /\ last.result.incidents = <<2, 3>>
    /\ last.incidents = <<3>>
    /\ delivered[3] = 1

\* C4: polling is idempotent.  After a poll has written its cursor, running
\* the poll again from that cursor on the response the server returned
\* before delivers no incident, for either adapter.
C4_PollIdempotent ==
    /\ JiraPolled =>
          fetch_incidents(lastRun, params.idOffset, params.fetchByCreated,
                          [raised |-> FALSE, issues |-> last.issues,
                           entries |-> last.entries_get]).incidents = <<>>
    /\ CasbPolled => casb_fetch_incidents(lastRun, last.result).incidents = <<>>

\* a poll that delivered two incidents, one of them seen twice in the response
C4_Witness ==
    /\ CasbPolled
    /\ last.read.ids # {}
    /\ Len(last.incidents) = 1
    /\ Len(last.result.incidents) = 2
    /\ lastRun = last.written

\* C5: the result of one Jira poll that starts from idOffset c and is handed
\* a list of issues: the incidents are the issues with id > c, in the order
\* of the response, and the idOffset written is the largest of c and the
\* returned ids.  From 100, the issues 99, 101, 105 give 101 and 105 and the
\* cursor 105.
C5_JiraPollResult ==
    /\ JiraPolled =>
          /\ last.incidents = SelectSeq(IssueIds(last.issues), LAMBDA x : x > last.read)
          /\ last.written.idOffset = MaxOf({last.read} \cup Range(IssueIds(last.issues)))
    /\ LET r == JiraLoop(<<[id |-> 99, created |-> 0], [id |-> 101, created |-> 0],
                           [id |-> 105, created |-> 0]>>, 100, 100, NoTime, <<>>)
       IN  r.incidents = <<101, 105>> /\ r.idOffset = 105

\* a poll from a positive offset handed an old issue after a new one
C5_Witness ==
    /\ JiraPolled
    /\ last.read >= 1
    /\ Len(last.issues) = 2
    /\ last.issues[1].id > last.read
    /\ last.issues[2].id <= last.read
    /\ Len(last.incidents) = 1

\* an issue of the server that the next poll's query matches, that lies above
\* the recorded id and that no poll has delivered yet
JiraPending(i) ==
    /\ i <= Len(remote)
    /\ delivered[i] = 0
    /\ i > JiraStart(lastRun, params.idOffset).idOffset
    /\ RemoteMatches(remote[i], JiraNextQuery, RemoteNow(remote))

\* C3: under repeated polling with the cursor persisted, every remote record
\* that matches the poll query is eventually delivered, and none is delivered
\* a second time, also when the response is cut at the page size and more
\* records match than fit in it.
C3_ExactlyOnce ==
    /\ \A i \in AllIds : JiraPending(i) ~> (delivered[i] >= 1)
    /\ [](\A i \in AllIds : delivered[i] <= 1)

\* C6: the persisted cursor never goes back: the idOffset a Jira poll writes
\* is at least the one it read; the start_time a CASB poll writes is not
\* earlier than the one it read and does not replace it by the empty value,
\* and the seen ids it writes include the ones it read.
C6_CursorMonotonic ==
    /\ JiraPolled => last.written.idOffset >= last.read
    /\ CasbPolled =>
          /\ last.read.ids \subseteq last.written.ids
          /\ last.read.start_time # NoTime =>
                /\ last.written.start_time # NoTime
                /\ last.written.start_time >= last.read.start_time

GotRemoteData == last.cmd = "get-remote-data" /\ last.get = "ok"

\* both timestamps parse and the issue's is strictly later than the last sync
StrictlyNewer ==
    /\ last.issue.updated \in Stamps
    /\ last.last_update \in Stamps
    /\ last.issue.updated > last.last_update

CloseEntry == [kind |-> "close", dbotIncidentClose |-> TRUE]

\* C7: get-remote-data gives no content update for an issue whose
\* last-modified timestamp is not strictly greater than the last sync
\* timestamp, equal timestamps included: the mirrored object carries no issue
\* content and the entry list is empty.
C7_NoUpdateUnlessNewer ==
    (GotRemoteData /\ ~StrictlyNewer) =>
        /\ last.res.outcome = "response"
        /\ last.res.content # "issue"
        /\ last.res.entries = <<>>

\* an issue with comments, last modified at the very time of the last sync
C7_Witness ==
    /\ GotRemoteData
    /\ last.issue.updated = 1 /\ last.last_update = 1
    /\ last.issue.comments # <<>>
    /\ last.res.content = "none"

\* C8 as stated: for every issue whose status is "Done", get-remote-data
\* gives exactly one close directive and no other entry, whatever the
\* relation between its last-modified timestamp and the last sync timestamp.
C8_CloseWheneverDone ==
    (GotRemoteData /\ last.issue.status = "Done") => last.res.entries = <<CloseEntry>>

\* C8 amended: for an issue whose status is "Done", get-remote-data gives
\* exactly one close directive and no other entry when the issue's
\* last-modified timestamp is strictly greater than the last sync timestamp,
\* and no entry at all when it is not.
C8_CloseWhenDoneAndNewer ==
    (GotRemoteData /\ last.issue.status = "Done") =>
        /\ StrictlyNewer => last.res.entries = <<CloseEntry>>
        /\ ~StrictlyNewer => last.res.entries = <<>>

\* a "Done" issue modified after the last sync, with a comment that is new too
C8_Witness ==
    /\ GotRemoteData
    /\ last.issue.status = "Done"
    /\ StrictlyNewer
    /\ \E k \in 1..Len(last.issue.comments) : last.issue.comments[k] > last.last_update
    /\ last.res.entries = <<CloseEntry>>

ClosedDetected == GotRemoteData /\ CloseEntry \in Range(last.res.entries)

\* C9 as stated: when get-remote-data finds the issue "Done", the response
\* does not carry the issue's content and holds no comment or attachment entry.
C9_CloseInsteadOfContent ==
    ClosedDetected =>
        /\ last.res.content # "issue"
        /\ \A k \in 1..Len(last.res.entries) : last.res.entries[k].kind = "close"

\* C9 amended: when get-remote-data finds the issue "Done", the response holds
\* the close directive and no comment or attachment entry; its mirrored
\* object is the issue's content, with an empty in_mirror_error.
C9_CloseWithContent ==
    ClosedDetected =>
        /\ last.res.outcome = "response"
        /\ last.res.content = "issue"
        /\ last.res.in_mirror_error = ""
        /\ \A k \in 1..Len(last.res.entries) : last.res.entries[k].kind = "close"

\* a closed issue that has a new attachment
C9_Witness ==
    /\ ClosedDetected
    /\ \E k \in 1..Len(last.issue.attachments) : last.issue.attachments[k] > last.last_update
    /\ last.res.content = "issue"

UpdatedRemote == last.cmd = "update-remote-system"

Pushed(j) == \E n \in 1..Len(last.res.requests) : last.res.requests[n].entry = j

\* C10: update-remote-system is best-effort per entry: when the push of entry
\* k fails, every entry after k is still pushed.
C10_BestEffortPerEntry ==
    UpdatedRemote =>
        \A k \in 1..Len(last.entries) :
            (Pushed(k) /\ last.entries[k].outcome # "ok") =>
                \A j \in (k + 1)..Len(last.entries) : Pushed(j)

\* C11: update-remote-system returns the remote incident id for every outcome
\* of the field edit and of each entry push, also when a request ends in
\* return_error (sys.exit): no failure reaches the caller.
C11_AlwaysReturnsRemoteId ==
    UpdatedRemote => last.res.returned = "remote_id"

\* a run in which a request ended in return_error and the id was returned
C11_Witness ==
    /\ UpdatedRemote
    /\ last.res.ended = "exit"
    /\ \E n \in 1..Len(last.res.requests) : last.res.requests[n].outcome = "exit"
    /\ last.res.returned = "remote_id"

\* C12: with an empty delta and no new entries update-remote-system sends no
\* request and returns the remote id.
C12_NothingToPush ==
    (UpdatedRemote /\ ~last.delta /\ last.entries = <<>>) =>
        (last.res.requests = <<>> /\ last.res.returned = "remote_id")

\* empty delta, no entries, and the incident flagged as changed
C12_Witness ==
    /\ UpdatedRemote
    /\ ~last.delta /\ last.incident_changed /\ last.entries = <<>>
    /\ last.res.requests = <<>>
    /\ last.res.returned = "remote_id"

IsEntryPush(request) == request.entry # 0

EditedIssue == last.cmd = "jira-edit-issue"

RequestsOf(kind) ==
    {n \in 1..Len(last.res.requests) : last.res.requests[n].req = kind}

\* the transitions whose name is the requested one up to case
FoldedMatches(name) ==
    {k \in 1..Len(last.transitions) : Lower(last.transitions[k].name) = Lower(name)}

\* what C14 asks of a change to the target `name`, once the field PUT and the
\* GET of the transitions went through
TransitionChangedByName(name) ==
    /\ last.res.requests[2].req = "list_transitions"
    /\ FoldedMatches(name) # {} =>
           /\ Cardinality(RequestsOf("transition")) = 1
           /\ \A n \in RequestsOf("transition") :
                  /\ n > 2
                  /\ \E k \in FoldedMatches(name) :
                         last.res.requests[n].id = last.transitions[k].id
    /\ FoldedMatches(name) = {} =>
           /\ RequestsOf("transition") = {}
           /\ last.res.ended = "exit"
           /\ last.res.error \in {"not-found-names", "not-found-data"}

\* C14: a status or transition change first fetches the allowed transitions,
\* matches the requested name case-insensitively, sends exactly one transition
\* POST with the matched id, and fails with a not-found error and no POST when
\* nothing matches; for the status argument and for the transition argument.
C14_TransitionByName ==
    (/\ EditedIssue
     /\ last.issue_json \in {"absent", "object"}
     /\ last.net["edit_issue"] = "ok" /\ last.net["list_transitions"] = "ok"
     /\ (last.status = NoArg) # (last.transition = NoArg)) =>
        TransitionChangedByName(IF last.status # NoArg THEN last.status
                                ELSE last.transition)

SentRequest == last.cmd = "send_request"

\* the class the taxonomy gives to a status code
ExpectedClass(status_code) ==
    IF status_code = 401 THEN "Unauthorized"
    ELSE IF status_code = 404 THEN "NotFound"
    ELSE IF status_code >= 500 /\ status_code < 600 THEN "ServerError"
    ELSE "Generic"

\* the class of the failure the client ends in, by the message it gives
FailureClass(error) ==
    IF error = "unauthorized" THEN "Unauthorized"
    ELSE IF error = "could-not-connect" THEN "NotFound"
    ELSE IF error = "upload-500" THEN "ServerError"
    ELSE "Generic"

\* C15: a non-success response ends the request in exactly one failure, no
\* response is returned to the handler, and the class of the failure follows
\* the status code (401 Unauthorized, 404 NotFound, 5xx ServerError, otherwise
\* Generic) whatever the shape of the body.
C15_FailureClassByStatus ==
    (SentRequest /\ ~ResponseOk(last.status_code)) =>
        /\ ~last.res.returned
        /\ Len(last.res.errors) = 1
        /\ FailureClass(last.res.errors[1]) = ExpectedClass(last.status_code)

CreatedIssue == last.cmd = "jira-create-issue"

\* the projects of the lookup that the given key or name names, up to case
NamedProjects ==
    {k \in 1..Len(last.projects) :
        \/ last.project_key # NoArg
           /\ Lower(last.project_key) = Lower(last.projects[k].key)
        \/ last.project_name # NoArg
           /\ Lower(last.project_name) = Lower(last.projects[k].name)}

\* C20: the creation POST is sent only after the project lookup matched a
\* project by key or by name, case-insensitively, and it carries that project's
\* id; without a key and a name the command fails before any request; when no
\* project matches it fails after the lookup, without the creation POST.
C20_ProjectResolvedFirst ==
    CreatedIssue =>
        LET rq == last.res.requests
        IN  /\ \A n \in 1..Len(rq) : rq[n].req = "create_issue" =>
                   /\ n = 2 /\ rq[1].req = "createmeta" /\ rq[1].outcome = "ok"
                   /\ \E k \in NamedProjects : rq[n].id = last.projects[k].id
            /\ (last.project_key = NoArg /\ last.project_name = NoArg) =>
                   (rq = <<>> /\ last.res.ended # "ok")
            /\ (/\ ~(last.project_key = NoArg /\ last.project_name = NoArg)
                /\ last.issue_json \in {"absent", "object"}
                /\ last.net["createmeta"] = "ok") =>
                   IF NamedProjects = {}
                   THEN /\ Len(rq) = 1 /\ rq[1].req = "createmeta"
                        /\ last.res.ended = "exit"
                   ELSE Len(rq) = 2 /\ rq[2].req = "create_issue"

\* a project given in another case than the server has it, found by its key,
\* and the POST carrying its id
C20_Witness ==
    /\ CreatedIssue
    /\ last.project_key = "ab" /\ last.project_name = NoArg
    /\ Len(last.projects) = 2
    /\ last.projects[1].key = "CD" /\ last.projects[2].key = "AB"
    /\ Len(last.res.requests) = 2
    /\ last.res.requests[2].req = "create_issue"
    /\ last.res.requests[2].id = last.projects[2].id

\* C16: a failed request ends the command with an error, nothing recovers from
\* it; in particular get-remote-data and get-modified-remote-data do not
\* answer normally after a request of theirs failed.
C16_FailedRequestAborts ==
    /\ (last.cmd = "get-remote-data" /\ last.get # "ok") => last.res.outcome = "error"
    /\ (last.cmd = "get-modified-remote-data"
        /\ (last.user_info # "ok" \/ last.query # "ok")) => last.res.outcome = "error"

AnyPolled == last.cmd \in {"jira-fetch", "casb-fetch"}

EventsOf(kind) == {n \in 1..Len(last.events) : last.events[n] = kind}

\* C17: in every fetch-incidents run of either adapter the cursor is read
\* exactly once, before any request, and written at most once, after every
\* record of the response has been processed.
C17_ReadOnceWriteOnce ==
    AnyPolled =>
        /\ EventsOf("read") = {1}
        /\ Cardinality(EventsOf("write")) <= 1
        /\ \A w \in EventsOf("write") : \A n \in EventsOf("record") : n < w
        /\ Cardinality(EventsOf("record")) = Len(last.incidents)
        /\ ~last.failed => Cardinality(EventsOf("write")) = 1

\* a poll that processed two records and then wrote the cursor
C17_Witness ==
    /\ AnyPolled
    /\ Len(last.incidents) = 2
    /\ Cardinality(EventsOf("record")) = 2
    /\ Cardinality(EventsOf("write")) = 1
    /\ lastRun = last.written

\* C18: nothing protects the cursor against overlapping invocations.  As long
\* as no two invocations were in flight together no record is emitted twice and
\* no write stores a smaller idOffset or seen-id set; when two invocations both
\* read the cursor before either writes, a state is reachable in which both
\* emitted the same record and the later write stored less than the earlier.
C18_SafeWhenSingleFlight ==
    ~running.overlapped =>
        /\ \A i \in AllIds : delivered[i] <= 1
        /\ ~running.regressed

\* two invocations that overlapped: both have emitted the same record and the
\* second write stored less than the first
C18_Witness ==
    /\ running.overlapped
    /\ \A p \in Procs : running.pc[p] = "done"
    /\ \E i \in AllIds : delivered[i] = 2
    /\ running.regressed

\* C19: the CASB seen-id set is bounded to the current window: after a poll
\* that got incidents, the persisted set holds only ids of incidents of that
\* poll's response; ids of earlier windows are dropped.
C19_SeenIdsOfWindow ==
    (CasbPolled /\ last.result.incidents # <<>>) =>
        lastRun.ids \subseteq Range(last.result.incidents)

\* C21: an issue_json argument of create or edit that cannot be parsed as JSON,
\* a malformed string as well as a value that is no string, ends the command
\* in the validation error "issueJson must be in a valid json format", and no
\* request is sent.
C21_InvalidJsonIsValidationError ==
    ((EditedIssue \/ CreatedIssue) /\ last.issue_json \in {"malformed", "non-string"}) =>
        /\ last.res.requests = <<>>
        /\ last.res.ended = "exit"
        /\ last.res.error = "issueJson must be in a valid json format"

\* C25: the field PUT of edit_issue_command is the first request sent, before
\* the status and transition arguments are looked at: a call with both is
\* rejected after that PUT and sends no transitions GET and no transition
\* POST; a name that matches nothing fails after the PUT as well.
C25_EditBeforeTransition ==
    EditedIssue =>
        LET rq == last.res.requests
        IN  /\ rq # <<>> => rq[1].req = "edit_issue"
            /\ \A n \in 1..Len(rq) : rq[n].req # "edit_issue" => rq[1].outcome = "ok"
            /\ (/\ last.issue_json \in {"absent", "object"}
                /\ last.net["edit_issue"] = "ok"
                /\ last.status # NoArg /\ last.transition # NoArg) =>
                   (rq = <<Request("edit_issue", 0, 0, "ok")>>
                    /\ last.res.ended = "exit" /\ last.res.error = "both")
            /\ last.res.error \in {"not-found-names", "not-found-data"} =>
                   (Len(rq) = 2 /\ rq[1] = Request("edit_issue", 0, 0, "ok")
                    /\ rq[2].req = "list_transitions")

\* both arguments given, with a target the issue could move to: the PUT went
\* out and the command was rejected
C25_Witness ==
    /\ EditedIssue
    /\ last.status = "Done" /\ last.transition = "Done"
    /\ Len(last.transitions) = 1 /\ last.transitions[1].name = "Done"
    /\ last.res.requests = <<Request("edit_issue", 0, 0, "ok")>>
    /\ last.res.error = "both"

\* the entries stamped after t, in the order of the list
RECURSIVE LaterThan(_, _, _)
LaterThan(stamps, kind, t) ==
    IF stamps = <<>> THEN <<>>
    ELSE (IF Head(stamps) > t THEN <<[kind |-> kind, stamp |-> Head(stamps)]>> ELSE <<>>)
         \o LaterThan(Tail(stamps), kind, t)

\* get-remote-data answered with the content of an issue that is not Done
UpdateEmitted ==
    /\ GotRemoteData
    /\ last.res.outcome = "response"
    /\ last.res.content = "issue" /\ last.res.in_mirror_error = ""
    /\ last.issue.status # "Done"

\* C22: when get-remote-data emits an update for an issue that is not Done, its
\* entries are exactly the comments updated strictly after the last sync,
\* followed by the attachments created strictly after it; nothing at or before
\* the last sync is emitted.
C22_OnlyNewEntries ==
    UpdateEmitted =>
        /\ last.res.entries = LaterThan(last.issue.comments, "comment", last.last_update)
                              \o LaterThan(last.issue.attachments, "attachment",
                                           last.last_update)
        /\ \A n \in 1..Len(last.res.entries) : last.res.entries[n].stamp > last.last_update

\* comments and attachments on both sides of the last sync: the later ones are
\* emitted, comments first
C22_Witness ==
    /\ UpdateEmitted
    /\ last.last_update = 0
    /\ last.issue.comments = <<0, 1>> /\ last.issue.attachments = <<1, 0>>
    /\ last.res.entries = <<[kind |-> "comment", stamp |-> 1],
                            [kind |-> "attachment", stamp |-> 1]>>

\* the GET of the comments is made: the issue arrived, is newer and not Done
EntriesFetched ==
    last.get = "ok" /\ StrictlyNewer /\ last.issue.status # "Done"

\* the failures get-remote-data can meet, by how they come
RemoteDataFailures ==
    (IF last.get # "ok" THEN {last.get} ELSE {})
    \cup (IF last.get = "ok" /\ CompareRaises(parse(last.issue.updated), parse(last.last_update))
          THEN {"raise"} ELSE {})
    \cup (IF EntriesFetched /\ last.ent # "ok" THEN {last.ent} ELSE {})
    \cup (IF EntriesFetched /\ last.ent = "ok" /\ EntriesRaise(last.issue)
          THEN {"raise"} ELSE {})

\* what C28 asks of an answer: in_mirror_error is there, empty when nothing
\* failed; after a failure it is the error text, there are no entries and the
\* mirrored object carries the id or the issue
AnswersWithMirrorError ==
    /\ last.res.outcome = "response"
    /\ IF RemoteDataFailures = {}
       THEN last.res.in_mirror_error = ""
       ELSE /\ last.res.in_mirror_error = "error"
            /\ last.res.entries = <<>>
            /\ last.res.content \in {"id", "issue"}

\* C28 as stated: get-remote-data always answers with in_mirror_error in the
\* mirrored object; only a failure whose text has "Rate limit exceeded" ends
\* the command with an error.
C28_ErrorOnlyOnRateLimit ==
    last.cmd = "get-remote-data" =>
        IF "rate-limit" \in RemoteDataFailures
        THEN last.res.outcome = "error"
        ELSE AnswersWithMirrorError

\* C26: a Jira poll whose search request fails leaves the stored cursor as
\* it was and delivers no incidents; a failure while fetching the comments or
\* attachments of a new issue does not fail the poll: the issue is emitted
\* with empty entries and the written cursor is at or past it.
C26_SearchFailsEntriesDoNot ==
    [][(Idle /\ last'.cmd = "jira-fetch") =>
          /\ last'.failed =>
                /\ last'.incidents = <<>>
                /\ lastRun' = lastRun
                /\ delivered' = delivered
          /\ (last'.entries_get # "ok" /\ last'.issues # <<>>) =>
                /\ ~last'.failed
                /\ last'.incidents # <<>> =>
                      /\ last'.entries = "empty"
                      /\ \A i \in Range(last'.incidents) : lastRun'.idOffset >= i
                      /\ lastRun'.idOffset > last'.read]_vars

\* the entries of a new issue could not be fetched, by an exception or by the
\* client's return_error, and the issue was emitted
C26_Witness ==
    /\ last.cmd = "jira-fetch"
    /\ last.entries_get = "exit"
    /\ ~last.failed
    /\ last.incidents # <<>> /\ last.entries = "empty"
    /\ \E i \in Range(last.incidents) : lastRun.idOffset = i

\* C27: a poll whose response has no records emits nothing and writes the
\* cursor values it read: CASB writes the stored last-run object back, even
\* when the response had a nextStartTime; Jira writes the idOffset and
\* lastCreatedTime it started from.
C27_EmptyPollKeepsCursor ==
    /\ (last.cmd = "casb-fetch" /\ ~last.failed /\ last.result.incidents = <<>>) =>
          /\ last.incidents = <<>>
          /\ last.written = last.read
          /\ lastRun = last.read
    /\ (last.cmd = "jira-fetch" /\ ~last.failed /\ last.issues = <<>>) =>
          /\ last.incidents = <<>>
          /\ lastRun.idOffset = last.read
          /\ lastRun.lastCreatedTime = last.read_created

\* an empty CASB response that names a later nextStartTime, after a poll that
\* stored a cursor
C27_Witness ==
    /\ last.cmd = "casb-fetch" /\ ~last.failed
    /\ last.result.incidents = <<>>
    /\ ~last.read.empty
    /\ last.result.nextStartTime # NoTime
    /\ last.result.nextStartTime # last.read.start_time
    /\ lastRun = last.read

\* jira-get-id-by-attribute got the answer of the user search
GotUsers == last.cmd = "jira-get-id-by-attribute" /\ last.net = "ok"

\* the users of the answer whose displayName or emailAddress is the attribute,
\* letter case aside
ExactUsers ==
    {k \in 1..Len(last.users) :
        \/ Lower(last.users[k].displayName) = Lower(last.attribute)
        \/ Lower(last.users[k].emailAddress) = Lower(last.attribute)}

\* the id of a user for the API in use
IdInUse(user) == IF last.is_jirav2api = "true" THEN user.name ELSE user.accountId

\* C24: jira-get-id-by-attribute returns an account id only when the choice is
\* unambiguous: the one id shared by the users that match the attribute
\* exactly (case aside); with no exact match, the id of the sole user
\* returned; in every other case a message and no id.  The id is `name` for
\* the v2 API and `accountId` otherwise.
C24_IdOnlyWhenUnambiguous ==
    GotUsers =>
        LET ids == {IdInUse(last.users[k]) : k \in ExactUsers}
        IN  IF Cardinality(ids) = 1
            THEN last.res.kind = "result" /\ last.res.account_id \in ids
            ELSE IF ExactUsers = {} /\ Len(last.users) = 1
            THEN last.res.kind = "result" /\ last.res.account_id = IdInUse(last.users[1])
            ELSE /\ last.res.kind \in {"no-account-id", "multiple-unresolved", "multiple-found"}
                 /\ last.res.account_id = NoArg

\* two users match the attribute, one by display name and one by e-mail
\* address, and share the v2 name but not the accountId: the name is returned
C24_Witness ==
    /\ GotUsers
    /\ last.is_jirav2api = "true"
    /\ Cardinality(ExactUsers) = 2
    /\ last.users[1].name = last.users[2].name
    /\ last.users[1].accountId # last.users[2].accountId
    /\ last.res.kind = "result" /\ last.res.account_id = last.users[1].name

\* mvision-casb-policy-dictionary-list computed its window
PolicyListed == last.cmd = "policy-dictionary-list"

RECURSIVE InWindow(_, _, _)
InWindow(result, k, window) ==
    IF k > Len(result) THEN <<>>
    ELSE (IF SliceBound(window[1], Len(result)) < k /\ k <= SliceBound(window[2], Len(result))
          THEN <<result[k]>> ELSE <<>>)
         \o InWindow(result, k + 1, window)

\* C30: policy dictionary list filters by name after the window is taken: the
\* output is the dictionaries inside the window whose name is asked for (all
\* of the window when no name is given), in the order of the server; a
\* dictionary outside the window is not returned, whatever its name, and the
\* output is no longer than the window.
C30_FilterAfterWindow ==
    (PolicyListed /\ last.net = "ok") =>
        LET inside == InWindow(last.result, 1, last.res.window)
            wanted == {k \in 1..Len(inside) :
                          last.names = {} \/ inside[k].name \in last.names}
            out == last.res.outputs
        IN  /\ Len(out) = Cardinality(wanted)
            /\ \A n \in 1..Len(out) :
                  \E k \in wanted :
                     /\ out[n] = [ID |-> inside[k].id, Name |-> inside[k].name]
                     /\ Cardinality({j \in wanted : j < k}) = n - 1
            /\ Len(out) <= Len(inside)
            /\ \A n \in 1..Len(out) :
                  \E k \in 1..Len(inside) : inside[k].id = out[n].ID

\* the first of three dictionaries has the name asked for and lies outside
\* page 2: nothing is returned although the name exists
C30_Witness ==
    /\ PolicyListed /\ last.net = "ok"
    /\ last.names = {"pii"}
    /\ Len(last.result) = 3
    /\ last.result[1].name = "pii" /\ last.result[3].name = "pci"
    /\ last.res.window = <<2, 4>>
    /\ last.res.outputs = <<>>

\* C29: when page_number n and page_size s are both given and non-zero, the
\* incident query sends exactly n queries, each with limit s, the first from
\* the start time asked for and each later one from the nextStartTime of the
\* answer before it, and outputs the incidents of the n-th answer; otherwise
\* it sends exactly one query, with the limit argument.
C29_PagedQueries ==
    (last.cmd = "incident-query" /\ last.res.ended # "error") =>
        LET n == last.page_number
            sz == last.page_size
            q == last.res.queries
        IN  IF n # NoNumber /\ n # 0 /\ sz # NoNumber /\ sz # 0
            THEN /\ Len(q) = n
                 /\ \A k \in 1..Len(q) :
                       /\ q[k].limit = sz
                       /\ q[k].start_time = IF k = 1 THEN last.start_time
                                            ELSE last.responses[k - 1].nextStartTime
                 /\ n >= 1 => last.res.outputs = last.responses[n].incidents
            ELSE /\ Len(q) = 1
                 /\ q[1].limit = IF last.limit = NoNumber THEN 50 ELSE last.limit
                 /\ q[1].start_time = last.start_time

====
